---- MODULE Spec2Model ----
(***************************************************************************)
(* Model of the on-demand PubChem enrichment of spiceschemdb (app.py) and  *)
(* of the batch structure downloader (download_structures.py).             *)
(*                                                                         *)
(* Spec      the structures side: fetch_structures_on_demand with its      *)
(*           downloader download_file, and the batch tool main() with its  *)
(*           downloader download.  Operations run one at a time (the       *)
(*           program is single-threaded and synchronous); a download       *)
(*           advances one GET attempt per step, each attempt drawing what  *)
(*           the remote service and the file system do.                    *)
(* SpecDesc  the descriptors side: fetch_descriptors_from_pubchem.         *)
(***************************************************************************)
EXTENDS Integers, Sequences, FiniteSets, TLC

-----------------------------------------------------------------------------
(* Values *)

\* NULL of an INTEGER column (phytochemicals.cid); real cids are >= 0.
NoCid == -1
\* NULL of a path column of structures, and the empty string '' of COALESCE(path, '').
NoPath == <<"NULL">>
EmptyString == <<>>
\* NULL / None of a descriptor value.
NULL == "<NULL>"

\* The rows of phytochemicals the model runs on: (phyto_id, cid).
Phytochemicals ==
    { [phyto_id |-> 1, cid |-> 101],
      [phyto_id |-> 2, cid |-> NoCid] }

PhytoIds == { p.phyto_id : p \in Phytochemicals }
CidOf(pid) == (CHOOSE p \in Phytochemicals : p.phyto_id = pid).cid
Cids == { p.cid : p \in Phytochemicals } \ {NoCid}

\* The three artifact kinds, in the order both programs fetch them.
KindOrder == <<"sdf2d", "sdf3d", "png">>
Kinds == {"sdf2d", "sdf3d", "png"}
Ext(kind) == IF kind = "png" THEN "png" ELSE "sdf"

\* Python truthiness of a cid: None and 0 are falsy.
Falsy(cid) == cid = NoCid \/ cid = 0

-----------------------------------------------------------------------------
(* Files.  A destination is <<directory parts, cid, extension>>; a file is *)
(* absent or holds `size` bytes, `complete` when they are a whole body.    *)

Absent == [exists |-> FALSE, size |-> 0, complete |-> FALSE]
FileOf(n, whole) == [exists |-> TRUE, size |-> n, complete |-> whole]

\* os.path.join(SDF2D_DIR, f"CID_{cid}.sdf") and its two siblings.
AppDest(kind, cid) == << <<"static", "structures", kind>>, cid, Ext(kind) >>
\* out_dir / "sdf2d" / f"CID_{cid}.sdf" with the default --out.
OutDir == <<"static", "structures">>
BatchDest(kind, cid) == << OutDir \o <<kind>>, cid, Ext(kind) >>

\* The relative path upsert_structure_paths stores.
AppRelPath(kind, cid) == << <<"structures", kind>>, cid, Ext(kind) >>

RECURSIVE IndexOf(_, _, _)
IndexOf(parts, x, i) ==
    IF i > Len(parts) THEN 0
    ELSE IF parts[i] = x THEN i ELSE IndexOf(parts, x, i + 1)

\* rel_to_static: the parts after the first "static", else the path as is.
rel_to_static(dest) ==
    LET parts == dest[1]
        idx == IndexOf(parts, "static", 1)
    IN IF idx > 0
       THEN << SubSeq(parts, idx + 1, Len(parts)), dest[2], dest[3] >>
       ELSE dest

AllDests == { AppDest(k, c) : k \in Kinds, c \in Cids }

\* Mutant of ExistsNonEmpty: the size test forgotten.
ExistsOnly(file) == file.exists

\* os.path.exists(dest) and os.path.getsize(dest) > 0
ExistsNonEmpty(file) == file.exists /\ file.size > 0

-----------------------------------------------------------------------------
(* What one GET attempt meets: the response, and what the file system does *)
(* if the code goes on to open and write the destination.                  *)

\* len(content) < 100
MinBody == 100
\* retries of download_file and of download
RetriesApp == 3
RetriesBatch == 3
\* time.sleep(0.8 * attempt) and time.sleep(1.5 * (i + 1)), in tenths of a second
BackoffApp == 8
BackoffBatch == 15

BodySizes == {0, MinBody - 1, MinBody}
NetErrors == {"http_error", "url_error", "timeout"}
\* "reset": an exception that is none of HTTPError, URLError, TimeoutError,
\* ValueError, raised while the body is read (ConnectionResetError, IncompleteRead).
FsOutcomes == {"ok", "write_error_none", "write_error_part"}

Outcomes ==
    { [resp |-> e, size |-> 0, fs |-> "ok"] : e \in NetErrors \cup {"reset"} }
    \cup { [resp |-> "body", size |-> 0, fs |-> "ok"] }
    \cup { [resp |-> "body", size |-> n, fs |-> f] : n \in BodySizes \ {0}, f \in FsOutcomes }

\* The destination after open(dest, "wb") and write(content) under outcome o.
WriteResult(file, o) ==
    CASE o.fs = "ok" -> FileOf(o.size, TRUE)
      [] o.fs = "write_error_none" -> FileOf(0, FALSE)
      [] o.fs = "write_error_part" -> FileOf(MinBody \div 2, FALSE)

-----------------------------------------------------------------------------
VARIABLES
    files,          \* [AllDests -> file]
    structures,     \* the committed rows of the structures table
    req,            \* [Reqs -> the position of a fetch_structures_on_demand call]
    bt,             \* the position of a run of download_structures.py main()
    txn,            \* the UPDATEs of the batch connection not yet committed
    dl,             \* [Procs -> the position of a download_file / download call]
    prev,           \* the operation that completed last
    ops,            \* the number of operations begun
    descriptors,    \* the rows of the descriptors table
    dcall,          \* the descriptor part of the last detail-page request
    fcall,          \* a fetch_descriptors_from_pubchem call with what it was answered
    drug,           \* the drug-likeness part of a detail-page request
    adm,            \* the position of a request to /admin/download_missing_structures
    fix             \* a run of fix_duplicates.py and the store it runs on

vars == <<files, structures, req, bt, txn, dl, prev, ops, descriptors, dcall, fcall, drug, adm,
         fix>>
structVars == <<files, structures, req, bt, txn, dl, prev, ops>>
\* What fetch_structures_on_demand and download_structures.py leave alone.
descVars == <<descriptors, dcall, fcall, drug, adm, fix>>

Reqs == {"r1", "r2"}
Procs == Reqs \cup {"batch"}

-----------------------------------------------------------------------------
(* download_file (app.py).  A call is a record: pc "try" while the attempt *)
(* loop runs and "ret" once it returned; log lists the events of the call *)
(* in order: <<"get", k>> the GET of attempt k, <<"open", k, n>> the       *)
(* destination opened for writing with a body of n bytes in hand,          *)
(* <<"written", k>> the body written in full, <<"sleep", t>> a sleep of t  *)
(* tenths of a second.                                                     *)

DlIdle ==
    [pc |-> "idle", dest |-> <<>>, attempt |-> 0, log |-> <<>>,
     before |-> Absent, ret |-> "none"]

DlReturn(d, value) == [d EXCEPT !.pc = "ret", !.ret = value]

\* if not content or len(content) < 100: raise ValueError
TooSmall(size) == size = 0 \/ size < MinBody

\* The entry of download_file: the skip check, then the loop head.
download_file_enter(file, dest) ==
    LET d == [DlIdle EXCEPT !.dest = dest, !.before = file]
    IN IF ExistsNonEmpty(file) THEN DlReturn(d, "true")
       ELSE IF RetriesApp < 1 THEN DlReturn(d, "false")
       ELSE [d EXCEPT !.pc = "try", !.attempt = 1]

\* Mutant of download_file_attempt: a constant sleep, time.sleep(0.8).
download_file_attempt_flat(d, file, o) ==
    LET k == d.attempt
        valid == o.resp = "body" /\ ~TooSmall(o.size)
        logGet == Append(d.log, <<"get", k>>)
        logIo == IF ~valid THEN logGet
                 ELSE IF o.fs = "ok"
                 THEN logGet \o << <<"open", k, o.size>>, <<"written", k>> >>
                 ELSE Append(logGet, <<"open", k, o.size>>)
        file2 == IF valid THEN WriteResult(file, o) ELSE file
    IN IF valid /\ o.fs = "ok"
       THEN [dl |-> DlReturn([d EXCEPT !.log = logIo], "true"), file |-> file2]
       ELSE LET slept == [d EXCEPT !.log = Append(logIo, <<"sleep", BackoffApp>>)]
            IN [dl |-> IF k < RetriesApp
                       THEN [slept EXCEPT !.attempt = k + 1]
                       ELSE DlReturn(slept, "false"),
                file |-> file2]

\* One iteration of the loop of download_file under outcome o.
download_file_attempt(d, file, o) ==
    LET k == d.attempt
        valid == o.resp = "body" /\ ~TooSmall(o.size)
        logGet == Append(d.log, <<"get", k>>)
        logIo == IF ~valid THEN logGet
                 ELSE IF o.fs = "ok"
                 THEN logGet \o << <<"open", k, o.size>>, <<"written", k>> >>
                 ELSE Append(logGet, <<"open", k, o.size>>)
        file2 == IF valid THEN WriteResult(file, o) ELSE file
    IN IF valid /\ o.fs = "ok"
       THEN [dl |-> DlReturn([d EXCEPT !.log = logIo], "true"), file |-> file2]
       ELSE LET slept == [d EXCEPT !.log = Append(logIo, <<"sleep", BackoffApp * k>>)]
            IN [dl |-> IF k < RetriesApp
                       THEN [slept EXCEPT !.attempt = k + 1]
                       ELSE DlReturn(slept, "false"),
                file |-> file2]

-----------------------------------------------------------------------------
(* download (download_structures.py): no skip check, only an empty body is *)
(* rejected, and only HTTPError, URLError and TimeoutError are caught.     *)

download_enter(file, dest) ==
    LET d == [DlIdle EXCEPT !.dest = dest, !.before = file]
    IN IF RetriesBatch < 1 THEN DlReturn(d, "false")
       ELSE [d EXCEPT !.pc = "try", !.attempt = 1]

download_attempt(d, file, o) ==
    LET k == d.attempt
        logGet == Append(d.log, <<"get", k>>)
        caught == o.resp \in NetErrors \/ (o.resp = "body" /\ o.size = 0)
    IN IF caught
       THEN [dl |-> IF k = RetriesBatch
                    THEN DlReturn([d EXCEPT !.log = logGet], "false")
                    ELSE [d EXCEPT !.log = Append(logGet, <<"sleep", BackoffBatch * k>>),
                                   !.attempt = k + 1],
             file |-> file]
       ELSE IF o.resp = "reset"
       THEN [dl |-> DlReturn([d EXCEPT !.log = logGet], "raised"), file |-> file]
       ELSE LET logIo == IF o.fs = "ok"
                         THEN logGet \o << <<"open", k, o.size>>, <<"written", k>> >>
                         ELSE Append(logGet, <<"open", k, o.size>>)
            IN [dl |-> DlReturn([d EXCEPT !.log = logIo],
                                IF o.fs = "ok" THEN "true" ELSE "raised"),
                file |-> WriteResult(file, o)]

-----------------------------------------------------------------------------
(* The structures table: a set of rows. *)

NewRow(pid, h2, h3) ==
    [phyto_id |-> pid, has_2d |-> h2, has_3d |-> h3,
     sdf_2d_path |-> NoPath, sdf_3d_path |-> NoPath, png_2d_path |-> NoPath]

RowsOf(rows, pid) == { s \in rows : s.phyto_id = pid }

PathOf(s, kind) ==
    CASE kind = "sdf2d" -> s.sdf_2d_path
      [] kind = "sdf3d" -> s.sdf_3d_path
      [] kind = "png" -> s.png_2d_path

\* Mutant of InsertOrNothing: INSERT OR REPLACE, which blanks an existing row.
InsertOrReplace(rows, pid) == (rows \ RowsOf(rows, pid)) \cup {NewRow(pid, 0, 0)}

\* INSERT INTO structures ... VALUES (?, 0, 0, NULL, NULL, NULL) ON CONFLICT(phyto_id) DO NOTHING
InsertOrNothing(rows, pid) ==
    IF RowsOf(rows, pid) # {} THEN rows ELSE rows \cup {NewRow(pid, 0, 0)}

\* Mutant of SetKind: the flag counted up, SET has_2d = has_2d + 1.
SetKindCounting(s, kind, path) ==
    CASE kind = "sdf2d" -> [s EXCEPT !.has_2d = @ + 1, !.sdf_2d_path = path]
      [] kind = "sdf3d" -> [s EXCEPT !.has_3d = @ + 1, !.sdf_3d_path = path]
      [] kind = "png" -> [s EXCEPT !.png_2d_path = path]

\* The SET clause of the UPDATE for one artifact kind (the same in both programs).
SetKind(s, kind, path) ==
    CASE kind = "sdf2d" -> [s EXCEPT !.has_2d = 1, !.sdf_2d_path = path]
      [] kind = "sdf3d" -> [s EXCEPT !.has_3d = 1, !.sdf_3d_path = path]
      [] kind = "png" -> [s EXCEPT !.png_2d_path = path]

\* UPDATE structures SET ... WHERE phyto_id = ?
UpdateKind(rows, pid, kind, path) ==
    { IF s.phyto_id = pid THEN SetKind(s, kind, path) ELSE s : s \in rows }

\* Mutant of upsert_structure_paths: the three UPDATEs run whatever was downloaded.
upsert_all_paths(rows, pid, cid, got2d, got3d, gotpng) ==
    UpdateKind(UpdateKind(UpdateKind(InsertOrNothing(rows, pid),
                                     pid, "sdf2d", AppRelPath("sdf2d", cid)),
                          pid, "sdf3d", AppRelPath("sdf3d", cid)),
               pid, "png", AppRelPath("png", cid))

upsert_structure_paths(rows, pid, cid, got2d, got3d, gotpng) ==
    LET r0 == InsertOrNothing(rows, pid)
        r1 == IF got2d THEN UpdateKind(r0, pid, "sdf2d", AppRelPath("sdf2d", cid)) ELSE r0
        r2 == IF got3d THEN UpdateKind(r1, pid, "sdf3d", AppRelPath("sdf3d", cid)) ELSE r1
    IN IF gotpng THEN UpdateKind(r2, pid, "png", AppRelPath("png", cid)) ELSE r2

-----------------------------------------------------------------------------
(* fetch_structures_on_demand (app.py), one call per request slot. *)

ReqIdle ==
    [pc |-> "idle", phyto_id |-> 0, cid |-> NoCid,
     got |-> [k \in Kinds |-> FALSE], ret |-> "none",
     pre |-> {},          \* the structures table when the call began
     allok |-> TRUE,      \* no GET attempt of the call has failed
     twice |-> FALSE,     \* the operation before was the same call, with allok
     detail |-> FALSE]    \* the slot serves a detail-page request

BtIdle ==
    [pc |-> "idle", mode |-> "missing", rows |-> <<>>, i |-> 0, attempted |-> 0,
     need |-> [k \in Kinds |-> FALSE],
     ok |-> [k \in Kinds |-> 0],      \* ok2d, ok3d, okpng
     allok |-> TRUE]                  \* every download of the run returned True

NoOp == [op |-> "none", phyto_id |-> 0, allok |-> FALSE]

\* The number of operations one behaviour begins.
MaxOps == 2

\* No operation is running, and another may begin.
Quiet ==
    /\ ops < MaxOps
    /\ \A r \in Reqs : req[r].pc \in {"idle", "done"}
    /\ bt.pc \in {"idle", "done", "crashed"}

Cleared == [r \in Reqs |-> ReqIdle]

NextKind(kind) ==
    CASE kind = "sdf2d" -> "sdf3d"
      [] kind = "sdf3d" -> "png"
      [] kind = "png" -> "end"

\* The call, up to the first download_file.
FetchStructuresCall(r, pid) ==
    /\ Quiet
    /\ LET cid == CidOf(pid)
           call == [ReqIdle EXCEPT !.phyto_id = pid, !.cid = cid, !.pre = structures,
                       !.twice = (prev = [op |-> "fetch_structures", phyto_id |-> pid,
                                          allok |-> TRUE])]
       IN IF Falsy(cid)
          THEN /\ req' = [Cleared EXCEPT ![r] = [call EXCEPT !.pc = "done", !.ret = "false"]]
               /\ prev' = [op |-> "fetch_structures", phyto_id |-> pid, allok |-> TRUE]
               /\ dl' = dl
          ELSE /\ req' = [Cleared EXCEPT ![r] = [call EXCEPT !.pc = "sdf2d"]]
               /\ dl' = [dl EXCEPT ![r] = download_file_enter(files[AppDest("sdf2d", cid)],
                                                              AppDest("sdf2d", cid))]
               /\ prev' = prev
    /\ bt' = BtIdle
    /\ ops' = ops + 1
    /\ UNCHANGED <<files, structures, txn, descVars>>

\* One GET attempt of the running download_file.
DownloadFileAttempt(r, o) ==
    /\ req[r].pc \in Kinds
    /\ dl[r].pc = "try"
    /\ LET res == download_file_attempt(dl[r], files[dl[r].dest], o)
       IN /\ dl' = [dl EXCEPT ![r] = res.dl]
          /\ files' = [files EXCEPT ![dl[r].dest] = res.file]
          /\ req' = [req EXCEPT ![r].allok = @ /\ res.dl.ret = "true"]
    /\ UNCHANGED <<structures, bt, txn, prev, ops, descVars>>

\* download_file returned: got2d / got3d / gotpng is assigned and the next
\* download_file is entered.
FetchStructuresNext(r) ==
    /\ req[r].pc \in Kinds
    /\ dl[r].pc = "ret"
    /\ LET kind == req[r].pc
           next == NextKind(kind)
           cid == req[r].cid
       IN /\ req' = [req EXCEPT ![r].got[kind] = (dl[r].ret = "true"),
                                ![r].pc = IF next = "end" THEN "upsert" ELSE next]
          /\ dl' = [dl EXCEPT ![r] =
                       IF next = "end" THEN DlIdle
                       ELSE download_file_enter(files[AppDest(next, cid)], AppDest(next, cid))]
    /\ UNCHANGED <<files, structures, bt, txn, prev, ops, descVars>>

\* if got2d or got3d or gotpng: upsert_structure_paths(...); return True
FetchStructuresReturn(r) ==
    /\ req[r].pc = "upsert"
    /\ LET g == req[r].got
           any == g["sdf2d"] \/ g["sdf3d"] \/ g["png"]
       IN /\ structures' =
                IF any
                THEN upsert_structure_paths(structures, req[r].phyto_id, req[r].cid,
                                            g["sdf2d"], g["sdf3d"], g["png"])
                ELSE structures
          /\ req' = [req EXCEPT ![r].pc = "done",
                                ![r].ret = IF any THEN "true" ELSE "false"]
    /\ prev' = [op |-> "fetch_structures", phyto_id |-> req[r].phyto_id,
                allok |-> req[r].allok]
    /\ UNCHANGED <<files, bt, txn, dl, ops, descVars>>

-----------------------------------------------------------------------------
(* The structures part of phytochemical_detail (app.py). *)

\* `not path` of Python on a path column: None and '' are falsy.
NotPath(path) == path = NoPath \/ path = EmptyString

\* fetch_phyto_full: a path column of the LEFT JOIN with structures
JoinedPath(rows, pid, kind) ==
    IF RowsOf(rows, pid) = {} THEN NoPath
    ELSE PathOf(CHOOSE s \in RowsOf(rows, pid) : TRUE, kind)

\* Mutant of missing_all_structures: `or` for `and`.
missing_any_structure(rows, pid) ==
    \/ NotPath(JoinedPath(rows, pid, "sdf2d"))
    \/ NotPath(JoinedPath(rows, pid, "sdf3d"))
    \/ NotPath(JoinedPath(rows, pid, "png"))

missing_all_structures(rows, pid) ==
    /\ NotPath(JoinedPath(rows, pid, "sdf2d"))
    /\ NotPath(JoinedPath(rows, pid, "sdf3d"))
    /\ NotPath(JoinedPath(rows, pid, "png"))

\* The request up to the first download_file of fetch_structures_on_demand,
\* or through the structures part when the test
\* `if cid and missing_all_structures` fails.
DetailStructures(r, pid) ==
    /\ Quiet
    /\ LET cid == CidOf(pid)
           call == [ReqIdle EXCEPT !.phyto_id = pid, !.cid = cid, !.pre = structures,
                                   !.detail = TRUE]
       IN IF ~Falsy(cid) /\ missing_all_structures(structures, pid)
          THEN /\ req' = [Cleared EXCEPT ![r] = [call EXCEPT !.pc = "sdf2d"]]
               /\ dl' = [dl EXCEPT ![r] = download_file_enter(files[AppDest("sdf2d", cid)],
                                                              AppDest("sdf2d", cid))]
               /\ prev' = prev
          ELSE /\ req' = [Cleared EXCEPT ![r] = [call EXCEPT !.pc = "done"]]
               /\ dl' = [dl EXCEPT ![r] = DlIdle]
               /\ prev' = [op |-> "detail", phyto_id |-> pid, allok |-> FALSE]
    /\ bt' = BtIdle
    /\ ops' = ops + 1
    /\ UNCHANGED <<files, structures, txn, descVars>>

-----------------------------------------------------------------------------
(* main() of download_structures.py. *)

\* if attempted % 50 == 0: con.commit()
CommitEvery == 50
\* The largest --limit drawn (0 means no limit).
MaxLimit == 1

Modes == {"missing", "all", "backfill2d"}

Coalesce(v, null, default) == IF v = null THEN default ELSE v

\* One row of the SELECT: phytochemicals JOIN structures, cid IS NOT NULL.
Joined(s) ==
    [phyto_id |-> s.phyto_id, cid |-> CidOf(s.phyto_id),
     has_2d |-> s.has_2d, has_3d |-> s.has_3d,
     sdf2d |-> Coalesce(s.sdf_2d_path, NoPath, EmptyString),
     sdf3d |-> Coalesce(s.sdf_3d_path, NoPath, EmptyString),
     png |-> Coalesce(s.png_2d_path, NoPath, EmptyString)]

RECURSIVE OrderByCid(_)
OrderByCid(set) ==
    IF set = {} THEN <<>>
    ELSE LET m == CHOOSE x \in set : \A y \in set : x.cid <= y.cid
         IN <<m>> \o OrderByCid(set \ {m})

SelectRows(rows) ==
    OrderByCid({ Joined(s) : s \in { t \in rows : CidOf(t.phyto_id) # NoCid } })

\* rows[: args.limit] when args.limit > 0
Limited(rows, limit) ==
    IF limit > 0 /\ limit < Len(rows) THEN SubSeq(rows, 1, limit) ELSE rows

RECURSIVE ApplyUpdates(_, _)
ApplyUpdates(rows, updates) ==
    IF updates = <<>> THEN rows
    ELSE ApplyUpdates(UpdateKind(rows, Head(updates).phyto_id, Head(updates).kind,
                                 Head(updates).path),
                      Tail(updates))

\* Mutant of Needs: force = True, the paths already present not looked at.
NeedsForced(mode, row) ==
    IF mode = "backfill2d"
    THEN [sdf2d |-> row.sdf2d = EmptyString, sdf3d |-> FALSE,
          png |-> row.png = EmptyString]
    ELSE [sdf2d |-> TRUE, sdf3d |-> TRUE, png |-> TRUE]

\* need_2d, need_3d, need_png of one row
Needs(mode, row) ==
    LET force == mode = "all"
    IN IF mode = "backfill2d"
       THEN [sdf2d |-> row.sdf2d = EmptyString, sdf3d |-> FALSE,
             png |-> row.png = EmptyString]
       ELSE [sdf2d |-> force \/ row.sdf2d = EmptyString,
             sdf3d |-> force \/ row.sdf3d = EmptyString,
             png |-> force \/ row.png = EmptyString]

\* Whether the block of one artifact kind downloads.
Wanted(mode, row, need, kind) ==
    /\ need[kind]
    /\ kind = "sdf3d" => (row.has_3d = 1 \/ mode = "all")

\* The SELECT and the slice by --limit.
BatchStart(mode, limit) ==
    /\ Quiet
    /\ bt' = [BtIdle EXCEPT !.pc = "loop", !.mode = mode,
                            !.rows = Limited(SelectRows(structures), limit)]
    /\ req' = Cleared
    /\ txn' = <<>>
    /\ ops' = ops + 1
    /\ UNCHANGED <<files, structures, dl, prev, descVars>>

\* The head of the loop body: attempted += 1 and the need_* flags; in mode
\* backfill2d a row without has_3d is skipped by `continue`.
BatchRow ==
    /\ bt.pc = "loop"
    /\ bt.i < Len(bt.rows)
    /\ LET row == bt.rows[bt.i + 1]
       IN bt' = IF bt.mode = "backfill2d" /\ row.has_3d = 0
                THEN [bt EXCEPT !.attempted = @ + 1, !.i = @ + 1]
                ELSE [bt EXCEPT !.attempted = @ + 1, !.need = Needs(bt.mode, row),
                                !.pc = "sdf2d"]
    /\ UNCHANGED <<files, structures, req, txn, dl, prev, ops, descVars>>

\* The `if need_...` of one artifact kind: enter download, or go on.
BatchStage ==
    /\ bt.pc \in Kinds
    /\ dl["batch"].pc = "idle"
    /\ LET row == bt.rows[bt.i + 1]
           dest == BatchDest(bt.pc, row.cid)
       IN IF Wanted(bt.mode, row, bt.need, bt.pc)
          THEN /\ dl' = [dl EXCEPT !["batch"] = download_enter(files[dest], dest)]
               /\ bt' = bt
          ELSE /\ bt' = [bt EXCEPT !.pc = IF NextKind(@) = "end" THEN "commit"
                                          ELSE NextKind(@)]
               /\ dl' = dl
    /\ UNCHANGED <<files, structures, req, txn, prev, ops, descVars>>

\* One GET attempt of the running download.
BatchDownloadAttempt(o) ==
    /\ bt.pc \in Kinds
    /\ dl["batch"].pc = "try"
    /\ LET res == download_attempt(dl["batch"], files[dl["batch"].dest], o)
       IN /\ dl' = [dl EXCEPT !["batch"] = res.dl]
          /\ files' = [files EXCEPT ![dl["batch"].dest] = res.file]
    /\ UNCHANGED <<structures, req, bt, txn, prev, ops, descVars>>

\* download returned: on True the UPDATE joins the open transaction; an
\* exception it let through ends main(), and the open transaction is lost.
BatchDownloadReturn ==
    /\ bt.pc \in Kinds
    /\ dl["batch"].pc = "ret"
    /\ LET row == bt.rows[bt.i + 1]
           d == dl["batch"]
       IN IF d.ret = "raised"
          THEN /\ bt' = [bt EXCEPT !.pc = "crashed", !.allok = FALSE]
               /\ txn' = <<>>
               /\ prev' = [op |-> "batch", phyto_id |-> 0, allok |-> FALSE]
          ELSE /\ bt' = [bt EXCEPT !.pc = IF NextKind(@) = "end" THEN "commit"
                                          ELSE NextKind(@),
                                   !.ok[bt.pc] = IF d.ret = "true" THEN @ + 1 ELSE @,
                                   !.allok = @ /\ d.ret = "true"]
               /\ txn' = IF d.ret = "true"
                         THEN Append(txn, [phyto_id |-> row.phyto_id, kind |-> bt.pc,
                                           path |-> rel_to_static(d.dest)])
                         ELSE txn
               /\ prev' = prev
    /\ dl' = [dl EXCEPT !["batch"] = DlIdle]
    /\ UNCHANGED <<files, structures, req, ops, descVars>>

\* The end of the loop body: commit periodically.
BatchCommitCheck ==
    /\ bt.pc = "commit"
    /\ IF bt.attempted % CommitEvery = 0
       THEN /\ structures' = ApplyUpdates(structures, txn)
            /\ txn' = <<>>
       ELSE UNCHANGED <<structures, txn>>
    /\ bt' = [bt EXCEPT !.pc = "loop", !.i = @ + 1]
    /\ UNCHANGED <<files, req, dl, prev, ops, descVars>>

\* After the loop: con.commit(); con.close()
BatchEnd ==
    /\ bt.pc = "loop"
    /\ bt.i = Len(bt.rows)
    /\ structures' = ApplyUpdates(structures, txn)
    /\ txn' = <<>>
    /\ bt' = [bt EXCEPT !.pc = "done"]
    /\ prev' = [op |-> "batch", phyto_id |-> 0, allok |-> FALSE]
    /\ UNCHANGED <<files, req, dl, ops, descVars>>

-----------------------------------------------------------------------------
(* The store as load_data.py leaves it: a structures row per phytochemical *)
(* with the has_2d / has_3d flags of the sheet and no path; older stores   *)
(* lack rows.                                                              *)

LoadedRows(pid) == {{}} \cup { {NewRow(pid, h, h3)} : h \in {0, 1}, h3 \in {0, 1} }

NoDescriptorCall ==
    [phyto_id |-> 0, called |-> FALSE, ret |-> "none", replied |-> FALSE, pre |-> {},
     obj |-> <<>>]        \* the property object of the batched reply, if any

\* No fetch_descriptors_from_pubchem call observed yet.
NoFetchCall ==
    [called |-> FALSE, phyto_id |-> 0, reply |-> <<>>, txtCanonical |-> <<>>,
     txtIsomeric |-> <<>>, pre |-> {}, ret |-> "none"]

\* No drug-likeness evaluation yet.
NoRules == [asked |-> FALSE, d |-> <<>>, drug_rules |-> <<>>]

\* No request to /admin/download_missing_structures yet.
AdmIdle ==
    [pc |-> "idle", limit |-> 0, requested |-> 0, rows |-> <<>>, i |-> 0, done |-> 0,
     returned |-> <<>>]

\* No run of fix_duplicates.py.
FixIdle ==
    [pc |-> "idle", foreign_keys |-> FALSE,
     phytochemicals |-> {}, spice_phytochemicals |-> {}, structures |-> {},
     descriptors |-> {},
     dups |-> <<>>, keeper_id |-> 0, dup_ids |-> <<>>,
     before |-> <<>>,     \* the four tables when the run began
     merged |-> {}]       \* the (dup_id, keeper_id) pairs merged so far

Init ==
    /\ files = [d \in AllDests |-> Absent]
    /\ \E a \in LoadedRows(1) : structures = a \cup {NewRow(2, 0, 0)}
    /\ req = Cleared
    /\ bt = BtIdle
    /\ txn = <<>>
    /\ dl = [p \in Procs |-> DlIdle]
    /\ prev = NoOp
    /\ ops = 0
    /\ descriptors = {}
    /\ dcall = NoDescriptorCall
    /\ fcall = NoFetchCall
    /\ drug = NoRules
    /\ adm = AdmIdle
    /\ fix = FixIdle

SeqReqs == {"r1"}

Next ==
    \/ \E r \in SeqReqs, pid \in PhytoIds : FetchStructuresCall(r, pid)
    \/ \E r \in SeqReqs, o \in Outcomes : DownloadFileAttempt(r, o)
    \/ \E r \in SeqReqs : FetchStructuresNext(r)
    \/ \E r \in SeqReqs : FetchStructuresReturn(r)
    \/ \E mode \in Modes, limit \in 0..MaxLimit : BatchStart(mode, limit)
    \/ BatchRow
    \/ BatchStage
    \/ \E o \in Outcomes : BatchDownloadAttempt(o)
    \/ BatchDownloadReturn
    \/ BatchCommitCheck
    \/ BatchEnd

Spec == Init /\ [][Next]_vars

\* Detail-page requests alone, one after the other.
NextDetail ==
    \/ \E r \in SeqReqs, pid \in PhytoIds : DetailStructures(r, pid)
    \/ \E r \in SeqReqs, o \in Outcomes : DownloadFileAttempt(r, o)
    \/ \E r \in SeqReqs : FetchStructuresNext(r)
    \/ \E r \in SeqReqs : FetchStructuresReturn(r)

SpecDetail == Init /\ [][NextDetail]_vars

-----------------------------------------------------------------------------
(* A run of download_structures.py --mode backfill2d over a store large    *)
(* enough to pass a commit checkpoint, taken from the point where the      *)
(* SELECT has returned.  The first row is phytochemical 1 with has_3d = 1  *)
(* and no path; every other row has has_3d = 0, so that the run downloads  *)
(* for the first row only.                                                 *)

\* The number of rows the SELECT returned.
RowsSelected == 51

\* The structures rows of the store, and what the SELECT made of them.
CheckpointStore ==
    {NewRow(1, 0, 1), NewRow(2, 0, 0)} \cup { NewRow(p, 0, 0) : p \in 3..(RowsSelected + 1) }
CheckpointRows ==
    [i \in 1..RowsSelected |->
        IF i = 1 THEN Joined(NewRow(1, 0, 1))
        ELSE [phyto_id |-> i + 1, cid |-> CidOf(1) + i, has_2d |-> 0, has_3d |-> 0,
              sdf2d |-> EmptyString, sdf3d |-> EmptyString, png |-> EmptyString]]

InitCheckpoint ==
    /\ files = [d \in AllDests |-> Absent]
    /\ structures = CheckpointStore
    /\ req = Cleared
    /\ bt = [BtIdle EXCEPT !.pc = "loop", !.mode = "backfill2d", !.rows = CheckpointRows]
    /\ txn = <<>>
    /\ dl = [p \in Procs |-> DlIdle]
    /\ prev = NoOp
    /\ ops = 1
    /\ descriptors = {}
    /\ dcall = NoDescriptorCall
    /\ fcall = NoFetchCall
    /\ drug = NoRules
    /\ adm = AdmIdle
    /\ fix = FixIdle

NextCheckpoint ==
    \/ BatchRow
    \/ BatchStage
    \/ \E o \in Outcomes : BatchDownloadAttempt(o)
    \/ BatchDownloadReturn
    \/ BatchCommitCheck
    \/ BatchEnd

SpecCheckpoint == InitCheckpoint /\ [][NextCheckpoint]_vars

-----------------------------------------------------------------------------
(* admin_download_missing_structures (app.py): the batch endpoint.  Its    *)
(* calls of fetch_structures_on_demand run in request slot "r1".           *)

\* min(int(request.args.get("limit", 10)), 100)
MaxRequested == 100
\* The values of the limit parameter drawn (10 is the default).
AdminLimits == {-1, 0, 1, 10, 101}

Min(a, b) == IF a < b THEN a ELSE b

\* The WHERE clause: a compound id, and no structures row or one whose
\* three paths are all NULL.
IsCandidate(rows, p) ==
    /\ p.cid # NoCid
    /\ \A s \in RowsOf(rows, p.phyto_id) :
          s.sdf_2d_path = NoPath /\ s.sdf_3d_path = NoPath /\ s.png_2d_path = NoPath

\* The rows of the SELECT before LIMIT, in the order of the table scan.
RECURSIVE OrderByPhytoId(_)
OrderByPhytoId(set) ==
    IF set = {} THEN <<>>
    ELSE LET m == CHOOSE x \in set : \A y \in set : x.phyto_id <= y.phyto_id
         IN <<m>> \o OrderByPhytoId(set \ {m})

\* LIMIT ? of SQLite: a negative value is no limit.
SqlLimit(rows, n) ==
    IF n < 0 THEN rows ELSE SubSeq(rows, 1, Min(n, Len(rows)))

\* The request up to the loop: the limit is read and the candidates selected.
AdminStart(limit) ==
    /\ Quiet
    /\ adm.pc \in {"idle", "done"}
    /\ LET requested == Min(limit, MaxRequested)
           found == OrderByPhytoId({ p \in Phytochemicals : IsCandidate(structures, p) })
       IN adm' = [AdmIdle EXCEPT !.pc = "loop", !.limit = limit, !.requested = requested,
                                 !.rows = SqlLimit(found, requested)]
    /\ req' = Cleared
    /\ ops' = ops + 1
    /\ UNCHANGED <<files, structures, bt, txn, dl, prev, descriptors, dcall, fcall, drug, fix>>

\* for r in rows: fetch_structures_on_demand(...), up to its first download_file
AdminCall ==
    /\ adm.pc = "loop"
    /\ adm.i < Len(adm.rows)
    /\ LET row == adm.rows[adm.i + 1]
           call == [ReqIdle EXCEPT !.phyto_id = row.phyto_id, !.cid = row.cid,
                                   !.pre = structures]
       IN IF Falsy(row.cid)
          THEN /\ req' = [Cleared EXCEPT !["r1"] = [call EXCEPT !.pc = "done", !.ret = "false"]]
               /\ dl' = dl
          ELSE /\ req' = [Cleared EXCEPT !["r1"] = [call EXCEPT !.pc = "sdf2d"]]
               /\ dl' = [dl EXCEPT !["r1"] =
                            download_file_enter(files[AppDest("sdf2d", row.cid)],
                                                AppDest("sdf2d", row.cid))]
    /\ adm' = [adm EXCEPT !.pc = "call"]
    /\ UNCHANGED <<files, structures, bt, txn, prev, ops, descriptors, dcall, fcall, drug, fix>>

\* fetch_structures_on_demand returned: done += 1
AdminReturn ==
    /\ adm.pc = "call"
    /\ req["r1"].pc = "done"
    /\ adm' = [adm EXCEPT !.pc = "loop", !.i = @ + 1, !.done = @ + 1,
                           !.returned = Append(@, req["r1"].ret)]
    /\ UNCHANGED <<structVars, descriptors, dcall, fcall, drug, fix>>

\* return jsonify({"downloaded": done, "requested": limit})
AdminEnd ==
    /\ adm.pc = "loop"
    /\ adm.i = Len(adm.rows)
    /\ adm' = [adm EXCEPT !.pc = "done"]
    /\ UNCHANGED <<structVars, descriptors, dcall, fcall, drug, fix>>

\* Requests to the batch endpoint alone, one after the other.
NextAdmin ==
    \/ \E limit \in AdminLimits : AdminStart(limit)
    \/ AdminCall
    \/ \E o \in Outcomes : DownloadFileAttempt("r1", o)
    \/ FetchStructuresNext("r1")
    \/ FetchStructuresReturn("r1")
    \/ AdminReturn
    \/ AdminEnd

SpecAdmin == Init /\ [][NextAdmin]_vars

-----------------------------------------------------------------------------
(* Two detail-page requests served at once (threads or workers of the web  *)
(* server).  Nothing in app.py synchronises them, so the steps of the two  *)
(* interleave at every access to a shared file or to the store.  An        *)
(* attempt of download_file is two such accesses: open(dest, "wb"), which  *)
(* truncates the file, and the write of the body, which both requests do   *)
(* with the same bytes.  upsert_structure_paths is one transaction.        *)

\* What an attempt meets here: the body, or an HTTP error.
ConcOutcomes ==
    { o \in Outcomes : o.fs = "ok" /\ (o.resp = "http_error"
                                        \/ (o.resp = "body" /\ o.size = MinBody)) }

\* An attempt up to open(dest, "wb").
download_file_open(d, file, o) ==
    LET k == d.attempt
        valid == o.resp = "body" /\ ~TooSmall(o.size)
        logGet == Append(d.log, <<"get", k>>)
    IN IF valid
       THEN [dl |-> [d EXCEPT !.pc = "write", !.log = Append(logGet, <<"open", k, o.size>>)],
             file |-> FileOf(0, FALSE)]
       ELSE LET slept == [d EXCEPT !.log = Append(logGet, <<"sleep", BackoffApp * k>>)]
            IN [dl |-> IF k < RetriesApp
                       THEN [slept EXCEPT !.attempt = k + 1]
                       ELSE DlReturn(slept, "false"),
                file |-> file]

\* f.write(content), the close, and return True.
download_file_write(d) ==
    [dl |-> DlReturn([d EXCEPT !.log = Append(@, <<"written", d.attempt>>)], "true"),
     file |-> FileOf(MinBody, TRUE)]

\* A request begins: fetch_phyto_full and the test of missing_all_structures.
ConcDetail(r, pid) ==
    /\ req[r].pc = "idle"
    /\ \A q \in Reqs : req[q].phyto_id \in {0, pid}
    /\ LET cid == CidOf(pid)
           call == [ReqIdle EXCEPT !.phyto_id = pid, !.cid = cid, !.pre = structures,
                                   !.detail = TRUE]
       IN IF ~Falsy(cid) /\ missing_all_structures(structures, pid)
          THEN /\ req' = [req EXCEPT ![r] = [call EXCEPT !.pc = "sdf2d"]]
               /\ dl' = [dl EXCEPT ![r] = download_file_enter(files[AppDest("sdf2d", cid)],
                                                              AppDest("sdf2d", cid))]
          ELSE /\ req' = [req EXCEPT ![r] = [call EXCEPT !.pc = "done"]]
               /\ dl' = dl
    /\ UNCHANGED <<files, structures, bt, txn, prev, ops, descVars>>

ConcDownloadOpen(r, o) ==
    /\ req[r].pc \in Kinds
    /\ dl[r].pc = "try"
    /\ LET res == download_file_open(dl[r], files[dl[r].dest], o)
       IN /\ dl' = [dl EXCEPT ![r] = res.dl]
          /\ files' = [files EXCEPT ![dl[r].dest] = res.file]
    /\ UNCHANGED <<structures, req, bt, txn, prev, ops, descVars>>

ConcDownloadWrite(r) ==
    /\ req[r].pc \in Kinds
    /\ dl[r].pc = "write"
    /\ LET res == download_file_write(dl[r])
       IN /\ dl' = [dl EXCEPT ![r] = res.dl]
          /\ files' = [files EXCEPT ![dl[r].dest] = res.file]
    /\ UNCHANGED <<structures, req, bt, txn, prev, ops, descVars>>

NextConc ==
    \/ \E r \in Reqs, pid \in PhytoIds : ConcDetail(r, pid)
    \/ \E r \in Reqs, o \in ConcOutcomes : ConcDownloadOpen(r, o)
    \/ \E r \in Reqs : ConcDownloadWrite(r)
    \/ \E r \in Reqs : FetchStructuresNext(r)
    \/ \E r \in Reqs : FetchStructuresReturn(r)

SpecConc == Init /\ [][NextConc]_vars

-----------------------------------------------------------------------------
(* fetch_descriptors_from_pubchem (app.py) and the descriptor part of the  *)
(* detail page.                                                            *)

\* The columns of descriptors and the PubChem property each is read from.
ColumnProp ==
    [molecular_formula |-> "MolecularFormula", molecular_weight |-> "MolecularWeight",
     xlogp |-> "XLogP", tpsa |-> "TPSA", hbd |-> "HBondDonorCount",
     hba |-> "HBondAcceptorCount", rotatable_bonds |-> "RotatableBondCount",
     heavy_atom_count |-> "HeavyAtomCount", complexity |-> "Complexity",
     charge |-> "Charge", smiles |-> "CanonicalSMILES",
     isomeric_smiles |-> "IsomericSMILES", inchi |-> "InChI",
     inchikey |-> "InChIKey", iupac_name |-> "IUPACName"]
DescColumns == DOMAIN ColumnProp
Props == { ColumnProp[c] : c \in DescColumns }

\* What the remote service may send.  A property object holds every
\* property but those of one set of missing ones, all with one value.
Values == {"v1", "v2"}
MayMiss == {"MolecularWeight", "CanonicalSMILES", "IsomericSMILES", "InChIKey"}
PropertyObjects ==
    { [q \in Props \ missing |-> v] : missing \in SUBSET MayMiss, v \in Values }

\* The reply to the batched JSON request: urlopen raises (net), the body is
\* not JSON (json), or the parsed document (data).
JsonReplies ==
    { [net |-> e, json |-> FALSE, data |-> <<>>] : e \in NetErrors }
    \cup { [net |-> "ok", json |-> FALSE, data |-> <<>>] }
    \cup { [net |-> "ok", json |-> TRUE, data |-> d] :
             d \in { [Fault |-> "x"], [PropertyTable |-> [Other |-> <<>>]],
                     [PropertyTable |-> [Properties |-> <<>>]] } }
    \cup { [net |-> "ok", json |-> TRUE,
            data |-> [PropertyTable |-> [Properties |-> <<po>>]]] : po \in PropertyObjects }

\* The reply to a plain-text request: an exception, or the body.
TxtReplies ==
    { [raised |-> TRUE, body |-> ""] }
    \cup { [raised |-> FALSE, body |-> b] : b \in {"", "Null\n", "CCO\n"} }

\* str.strip() and str.lower() on the bodies above
Strip(t) ==
    CASE t = "CCO\n" -> "CCO"
      [] t = "Null\n" -> "Null"
      [] OTHER -> t
Lower(t) ==
    CASE t = "Null" -> "null"
      [] t = "CCO" -> "cco"
      [] OTHER -> t

\* dict.get(key)
Get(obj, key) == IF key \in DOMAIN obj THEN obj[key] ELSE NULL

\* Mutant of _pubchem_get_properties: an error answered with an empty object.
_pubchem_get_properties_lenient(reply) ==
    IF /\ reply.net = "ok" /\ reply.json
       /\ "PropertyTable" \in DOMAIN reply.data
       /\ "Properties" \in DOMAIN reply.data.PropertyTable
       /\ Len(reply.data.PropertyTable.Properties) > 0
    THEN [raised |-> FALSE, obj |-> reply.data.PropertyTable.Properties[1]]
    ELSE [raised |-> FALSE, obj |-> <<>>]

\* data["PropertyTable"]["Properties"][0], or the exception on the way
_pubchem_get_properties(reply) ==
    IF reply.net # "ok" THEN [raised |-> TRUE, obj |-> <<>>]
    ELSE IF ~reply.json THEN [raised |-> TRUE, obj |-> <<>>]
    ELSE IF "PropertyTable" \notin DOMAIN reply.data THEN [raised |-> TRUE, obj |-> <<>>]
    ELSE IF "Properties" \notin DOMAIN reply.data.PropertyTable
    THEN [raised |-> TRUE, obj |-> <<>>]
    ELSE IF Len(reply.data.PropertyTable.Properties) < 1 THEN [raised |-> TRUE, obj |-> <<>>]
    ELSE [raised |-> FALSE, obj |-> reply.data.PropertyTable.Properties[1]]

\* Mutant of _pubchem_get_txt: the test for "null" without lower().
_pubchem_get_txt_cased(reply) ==
    IF reply.raised THEN NULL
    ELSE LET txt == Strip(reply.body)
         IN IF txt # "" /\ txt # "null" THEN txt ELSE NULL

_pubchem_get_txt(reply) ==
    IF reply.raised THEN NULL
    ELSE LET txt == Strip(reply.body)
         IN IF txt # "" /\ Lower(txt) # "null" THEN txt ELSE NULL

DescRowsOf(table, pid) == { d \in table : d.phyto_id = pid }

\* Mutant of UpsertDescriptors: only the columns that are NULL are filled,
\* SET c = COALESCE(c, excluded.c).
UpsertDescriptorsFill(table, pid, row) ==
    IF { d \in table : d.phyto_id = pid } = {}
    THEN table \cup {[phyto_id |-> pid, v |-> row]}
    ELSE { IF d.phyto_id = pid
           THEN [d EXCEPT !.v = [c \in DOMAIN row |-> IF d.v[c] = NULL THEN row[c] ELSE d.v[c]]]
           ELSE d : d \in table }

\* Mutant of UpsertDescriptors: a row without SMILES is not stored.
UpsertDescriptorsWithSmiles(table, pid, row) ==
    IF row["smiles"] = NULL \/ row["isomeric_smiles"] = NULL THEN table
    ELSE IF { d \in table : d.phyto_id = pid } = {}
    THEN table \cup {[phyto_id |-> pid, v |-> row]}
    ELSE { IF d.phyto_id = pid THEN [d EXCEPT !.v = row] ELSE d : d \in table }

\* INSERT INTO descriptors ... ON CONFLICT(phyto_id) DO UPDATE SET <every column>=excluded.<column>
UpsertDescriptors(table, pid, row) ==
    IF DescRowsOf(table, pid) = {}
    THEN table \cup {[phyto_id |-> pid, v |-> row]}
    ELSE { IF d.phyto_id = pid THEN [d EXCEPT !.v = [c \in DescColumns |-> row[c]]] ELSE d :
           d \in table }

\* The call: [ret, table] from the replies to the batched request and to the
\* two plain-text requests (made only when the batched value is None).
fetch_descriptors_from_pubchem(table, pid, cid, reply, txtCanonical, txtIsomeric) ==
    IF Falsy(cid) THEN [ret |-> "false", table |-> table]
    ELSE LET got == _pubchem_get_properties(reply)
         IN IF got.raised THEN [ret |-> "false", table |-> table]
            ELSE LET row0 == [c \in DescColumns |-> Get(got.obj, ColumnProp[c])]
                     row1 == IF row0["smiles"] = NULL
                             THEN [row0 EXCEPT !["smiles"] = _pubchem_get_txt(txtCanonical)]
                             ELSE row0
                     row2 == IF row1["isomeric_smiles"] = NULL
                             THEN [row1 EXCEPT !["isomeric_smiles"] =
                                                   _pubchem_get_txt(txtIsomeric)]
                             ELSE row1
                 IN [ret |-> "true", table |-> UpsertDescriptors(table, pid, row2)]

\* fetch_phyto_full: the descriptor columns of the LEFT JOIN
JoinedDescriptor(table, pid, col) ==
    IF DescRowsOf(table, pid) = {} THEN NULL
    ELSE (CHOOSE d \in DescRowsOf(table, pid) : TRUE).v[col]

\* Mutant of missing_desc: the isomeric SMILES tested as a fourth field.
missing_desc_isomeric(table, pid) ==
    \/ JoinedDescriptor(table, pid, "molecular_weight") = NULL
    \/ JoinedDescriptor(table, pid, "smiles") = NULL
    \/ JoinedDescriptor(table, pid, "isomeric_smiles") = NULL
    \/ JoinedDescriptor(table, pid, "inchikey") = NULL

\* missing_desc of phytochemical_detail
missing_desc(table, pid) ==
    \/ JoinedDescriptor(table, pid, "molecular_weight") = NULL
    \/ JoinedDescriptor(table, pid, "smiles") = NULL
    \/ JoinedDescriptor(table, pid, "inchikey") = NULL

\* Whether a batched reply carries a property object at all.
ReplyHasProperties(reply) ==
    /\ reply.net = "ok" /\ reply.json
    /\ "PropertyTable" \in DOMAIN reply.data
    /\ "Properties" \in DOMAIN reply.data.PropertyTable
    /\ reply.data.PropertyTable.Properties # <<>>

\* The descriptor part of a detail-page request whose test
\* `if cid and missing_desc` holds: fetch_descriptors_from_pubchem is called.
DetailDescriptorsFetch(pid, reply, txtCanonical, txtIsomeric) ==
    /\ ~Falsy(CidOf(pid)) /\ missing_desc(descriptors, pid)
    /\ LET res == fetch_descriptors_from_pubchem(descriptors, pid, CidOf(pid), reply,
                                                 txtCanonical, txtIsomeric)
       IN /\ descriptors' = res.table
          /\ dcall' = [phyto_id |-> pid, called |-> TRUE, ret |-> res.ret,
                       replied |-> ReplyHasProperties(reply), pre |-> descriptors,
                       obj |-> IF ReplyHasProperties(reply)
                               THEN reply.data.PropertyTable.Properties[1] ELSE <<>>]
    /\ UNCHANGED <<structVars, fcall, drug, adm, fix>>

\* The same part when the test fails: no request is made.
DetailDescriptorsHit(pid) ==
    /\ ~(~Falsy(CidOf(pid)) /\ missing_desc(descriptors, pid))
    /\ dcall' = [phyto_id |-> pid, called |-> FALSE, ret |-> "none",
                 replied |-> FALSE, pre |-> descriptors, obj |-> <<>>]
    /\ UNCHANGED <<descriptors, structVars, fcall, drug, adm, fix>>

\* The plain-text replies that a batched reply leaves to be drawn: one
\* request is made per SMILES property the property object lacks.
NoTxt == [raised |-> TRUE, body |-> ""]
TxtDraws(reply, prop) ==
    IF ReplyHasProperties(reply)
       /\ prop \notin DOMAIN reply.data.PropertyTable.Properties[1]
    THEN TxtReplies ELSE {NoTxt}

\* The descriptors side alone, on a store whose structures rows are as loaded.
InitDesc == Init /\ structures = {NewRow(1, 0, 0), NewRow(2, 0, 0)}

NextDesc ==
    \/ \E pid \in PhytoIds, reply \in JsonReplies :
          \E t1 \in TxtDraws(reply, "CanonicalSMILES"), t2 \in TxtDraws(reply, "IsomericSMILES") :
             DetailDescriptorsFetch(pid, reply, t1, t2)
    \/ \E pid \in PhytoIds : DetailDescriptorsHit(pid)

SpecDesc == InitDesc /\ [][NextDesc]_vars

-----------------------------------------------------------------------------
(* One call of fetch_descriptors_from_pubchem, observed with what the       *)
(* service answered, on a table that is empty or holds the row an earlier   *)
(* call stored.                                                             *)

RowOf(obj) == [c \in DescColumns |-> Get(obj, ColumnProp[c])]
PriorTables ==
    {{}} \cup { {[phyto_id |-> 1, v |-> RowOf(po)]} : po \in PropertyObjects }

FetchDescriptorsCall(pid, reply, txtCanonical, txtIsomeric) ==
    /\ ~fcall.called
    /\ LET res == fetch_descriptors_from_pubchem(descriptors, pid, CidOf(pid), reply,
                                                 txtCanonical, txtIsomeric)
       IN /\ descriptors' = res.table
          /\ fcall' = [called |-> TRUE, phyto_id |-> pid, reply |-> reply,
                       txtCanonical |-> txtCanonical, txtIsomeric |-> txtIsomeric,
                       pre |-> descriptors, ret |-> res.ret]
    /\ UNCHANGED <<structVars, dcall, drug, adm, fix>>

InitFetch ==
    /\ files = [d \in AllDests |-> Absent]
    /\ structures = {NewRow(1, 0, 0), NewRow(2, 0, 0)}
    /\ req = Cleared
    /\ bt = BtIdle
    /\ txn = <<>>
    /\ dl = [p \in Procs |-> DlIdle]
    /\ prev = NoOp
    /\ ops = 0
    /\ descriptors \in PriorTables
    /\ dcall = NoDescriptorCall
    /\ fcall = NoFetchCall
    /\ drug = NoRules
    /\ adm = AdmIdle
    /\ fix = FixIdle

NextFetch ==
    \E pid \in PhytoIds, reply \in JsonReplies :
       \E t1 \in TxtDraws(reply, "CanonicalSMILES"), t2 \in TxtDraws(reply, "IsomericSMILES") :
          FetchDescriptorsCall(pid, reply, t1, t2)

SpecFetch == InitFetch /\ [][NextFetch]_vars

-----------------------------------------------------------------------------
(* calc_druglikeness_rules (app.py) and the line of phytochemical_detail   *)
(* that calls it.  The REAL columns molecular_weight, xlogp and tpsa and   *)
(* the thresholds they are compared with are in hundredths, so that 131.6, *)
(* 5.88, -0.4 and 5.6 are integers; hbd, hba and rotatable_bonds are       *)
(* INTEGER columns.  The en dash and the minus sign of two labels are      *)
(* written "-".  A value that may be None is <<>> for None and <<x>> for   *)
(* x.                                                                      *)

None == <<>>
Some(x) == <<x>>

\* None if x is None else float(x)
_num(x) == IF x = None THEN None ELSE Some(x[1])

\* Mutant of Over: >= for >.
OverOrEqual(x, limit) == x # None /\ x[1] >= limit

\* x is not None and x > limit
Over(x, limit) == x # None /\ x[1] > limit

\* x is not None and (x < lo or x > hi)
Outside(x, lo, hi) == x # None /\ (x[1] < lo \/ x[1] > hi)

IsFailed(check) == check.failed

\* fails = [] and the appends of one rule set, then its entry of results
RuleResult(checks) ==
    LET failed == SelectSeq(checks, IsFailed)
        fails == [i \in 1..Len(failed) |-> failed[i].label]
    IN [pass |-> Len(fails) = 0, fail_count |-> Len(fails), fails |-> fails]

calc_druglikeness_rules(d) ==
    LET mw == _num(d["molecular_weight"])
        xlogp == _num(d["xlogp"])
        tpsa == _num(d["tpsa"])
        hbd == d["hbd"]
        hba == d["hba"]
        rot == d["rotatable_bonds"]
    IN [Lipinski |-> RuleResult(<<
            [failed |-> Over(mw, 50000), label |-> "MW > 500"],
            [failed |-> Over(xlogp, 500), label |-> "XlogP > 5"],
            [failed |-> Over(hbd, 5), label |-> "HBD > 5"],
            [failed |-> Over(hba, 10), label |-> "HBA > 10"] >>),
        Veber |-> RuleResult(<<
            [failed |-> Over(rot, 10), label |-> "RotB > 10"],
            [failed |-> Over(tpsa, 14000), label |-> "TPSA > 140"] >>),
        Ghose |-> RuleResult(<<
            [failed |-> Outside(mw, 16000, 48000), label |-> "MW not in 160-480"],
            [failed |-> Outside(xlogp, -40, 560), label |-> "XLogP not in -0.4-5.6"] >>),
        Egan |-> RuleResult(<<
            [failed |-> Over(tpsa, 13160), label |-> "TPSA > 131.6"],
            [failed |-> Over(xlogp, 588), label |-> "XlogP > 5.88"] >>),
        Muegge |-> RuleResult(<<
            [failed |-> Outside(mw, 20000, 60000), label |-> "MW not in 200-600"],
            [failed |-> Over(xlogp, 500), label |-> "XLogP > 5"],
            [failed |-> Over(tpsa, 15000), label |-> "TPSA > 150"],
            [failed |-> Over(hbd, 5), label |-> "HBD > 5"],
            [failed |-> Over(hba, 10), label |-> "HBA > 10"],
            [failed |-> Over(rot, 15), label |-> "RotB > 15"] >>)]

\* The descriptor values the rules are evaluated on: each field null, at,
\* just over and well over the thresholds that read it.
DescriptorInputs ==
    [molecular_weight : {None} \cup { Some(x) : x \in {15900, 18016, 50000, 50001, 60000, 60100} },
     xlogp : {None} \cup { Some(x) : x \in {-41, 120, 500, 561, 589, 600} },
     tpsa : {None} \cup { Some(x) : x \in {9000, 13161, 14001, 15001} },
     hbd : {None} \cup { Some(x) : x \in {2, 5, 6} },
     hba : {None} \cup { Some(x) : x \in {4, 10, 11} },
     rotatable_bonds : {None} \cup { Some(x) : x \in {3, 11, 16} }]

\* drug_rules = calc_druglikeness_rules(phyto)
\*              if phyto["molecular_weight"] is not None else None
DetailRules ==
    /\ ~drug.asked
    /\ drug' = [drug EXCEPT !.asked = TRUE,
                            !.drug_rules = IF drug.d["molecular_weight"] # None
                                           THEN Some(calc_druglikeness_rules(drug.d))
                                           ELSE None]
    /\ UNCHANGED <<structVars, descriptors, dcall, fcall, adm, fix>>

InitRules ==
    /\ files = [d \in AllDests |-> Absent]
    /\ structures = {NewRow(1, 0, 0), NewRow(2, 0, 0)}
    /\ req = Cleared
    /\ bt = BtIdle
    /\ txn = <<>>
    /\ dl = [p \in Procs |-> DlIdle]
    /\ prev = NoOp
    /\ ops = 0
    /\ descriptors = {}
    /\ dcall = NoDescriptorCall
    /\ fcall = NoFetchCall
    /\ \E d \in DescriptorInputs : drug = [NoRules EXCEPT !.d = d]
    /\ adm = AdmIdle
    /\ fix = FixIdle

NextRules == DetailRules

SpecRules == InitRules /\ [][NextRules]_vars

-----------------------------------------------------------------------------
(* main() of fix_duplicates.py.  fix holds the four tables the script reads *)
(* and writes and the position of the run.  The script opens its           *)
(* connection without PRAGMA foreign_keys, so the ON DELETE CASCADE of the *)
(* schema acts only where the SQLite build enables foreign keys by         *)
(* default: foreign_keys is either, fixed for the run.                     *)

FixIds == {1, 2, 3}
SpiceIds == {1, 2}
PhytoNames == {"a", "b"}

PhytoRow(p, name, cid) == [phyto_id |-> p, phyto_name |-> name, cid |-> cid]
Link(sp, p) == [spice_id |-> sp, phyto_id |-> p]
DescRow(p) == [phyto_id |-> p, v |-> [c \in DescColumns |-> "v1"]]

\* The tables of a store.
Tables(f) ==
    [phytochemicals |-> f.phytochemicals, spice_phytochemicals |-> f.spice_phytochemicals,
     structures |-> f.structures, descriptors |-> f.descriptors]

\* SELECT phyto_name, COUNT(*) ... GROUP BY phyto_name HAVING c > 1
DuplicateNames(phytos) ==
    { n \in { r.phyto_name : r \in phytos } :
        Cardinality({ r \in phytos : r.phyto_name = n }) > 1 }

\* The sequences that list the elements of a set once each.
ListsOf(set) ==
    { q \in [1..Cardinality(set) -> set] : \A i, j \in DOMAIN q : q[i] = q[j] => i = j }

\* The subqueries of the SELECT of one name.
spice_count(t, p) == Cardinality({ l \in t.spice_phytochemicals : l.phyto_id = p })
struct_count(t, p) == Cardinality({ x \in t.structures : x.phyto_id = p })
CidPresent(r) == IF r.cid # NoCid THEN 1 ELSE 0

\* ORDER BY (p.cid IS NOT NULL) DESC, spice_count DESC, struct_count DESC:
\* row a may stand before row b.
MayPrecede(t, a, b) ==
    \/ CidPresent(a) > CidPresent(b)
    \/ /\ CidPresent(a) = CidPresent(b)
       /\ \/ spice_count(t, a.phyto_id) > spice_count(t, b.phyto_id)
          \/ /\ spice_count(t, a.phyto_id) = spice_count(t, b.phyto_id)
             /\ struct_count(t, a.phyto_id) >= struct_count(t, b.phyto_id)

\* The results the SELECT of one name may return: rows with equal sort keys
\* come in any order.
SelectByName(t, name) ==
    { q \in ListsOf({ r \in t.phytochemicals : r.phyto_name = name }) :
        \A i, j \in DOMAIN q : i < j => MayPrecede(t, q[i], q[j]) }

\* UPDATE OR IGNORE spice_phytochemicals SET phyto_id = keeper WHERE phyto_id = dup:
\* a row whose new key (spice_id, keeper) exists already is left as it is.
MoveSpiceMappings(links, keeper, dup) ==
    { IF l.phyto_id = dup /\ Link(l.spice_id, keeper) \notin links
      THEN Link(l.spice_id, keeper) ELSE l : l \in links }

\* if dup_struct and not keeper_struct: UPDATE structures SET phyto_id = keeper
TransferStructures(structs, keeper, dup) ==
    IF RowsOf(structs, dup) # {} /\ RowsOf(structs, keeper) = {}
    THEN { IF x.phyto_id = dup THEN [x EXCEPT !.phyto_id = keeper] ELSE x : x \in structs }
    ELSE structs

\* DELETE FROM <table> WHERE phyto_id = dup
DeleteWhere(rows, dup) == { x \in rows : x.phyto_id # dup }

\* DELETE FROM phytochemicals WHERE phyto_id = dup, with the cascade to the
\* three referencing tables when foreign keys are enforced.
DeletePhytochemical(t, dup, foreign_keys) ==
    IF foreign_keys
    THEN [phytochemicals |-> DeleteWhere(t.phytochemicals, dup),
          spice_phytochemicals |-> DeleteWhere(t.spice_phytochemicals, dup),
          structures |-> DeleteWhere(t.structures, dup),
          descriptors |-> DeleteWhere(t.descriptors, dup)]
    ELSE [t EXCEPT !.phytochemicals = DeleteWhere(@, dup)]

\* The body of `for dup_id in dup_ids`.
MergeDuplicate(t, keeper, dup, foreign_keys) ==
    LET t1 == [t EXCEPT !.spice_phytochemicals = MoveSpiceMappings(@, keeper, dup)]
        t2 == [t1 EXCEPT !.structures = TransferStructures(@, keeper, dup)]
        t3 == [t2 EXCEPT !.structures = DeleteWhere(@, dup)]
    IN DeletePhytochemical(t3, dup, foreign_keys)

\* The script starts: the duplicate names are selected.
FixStart ==
    /\ fix.pc = "start"
    /\ \E names \in ListsOf(DuplicateNames(fix.phytochemicals)) :
          fix' = [fix EXCEPT !.pc = "names", !.dups = names]
    /\ UNCHANGED <<structVars, descriptors, dcall, fcall, drug, adm>>

\* The head of `for d in dups`: the rows of the name in order, the keeper
\* and the duplicates; a name with fewer than two rows is passed over.
FixName ==
    /\ fix.pc = "names"
    /\ fix.dups # <<>>
    /\ \E rows \in SelectByName(Tables(fix), Head(fix.dups)) :
          fix' = IF Len(rows) < 2
                 THEN [fix EXCEPT !.dups = Tail(@)]
                 ELSE [fix EXCEPT !.pc = "merge", !.keeper_id = rows[1].phyto_id,
                                  !.dup_ids = [i \in 1..(Len(rows) - 1) |->
                                                  rows[i + 1].phyto_id]]
    /\ UNCHANGED <<structVars, descriptors, dcall, fcall, drug, adm>>

\* One duplicate is merged into the keeper.
FixMerge ==
    /\ fix.pc = "merge"
    /\ fix.dup_ids # <<>>
    /\ LET dup == Head(fix.dup_ids)
           t == MergeDuplicate(Tables(fix), fix.keeper_id, dup, fix.foreign_keys)
       IN fix' = [fix EXCEPT !.phytochemicals = t.phytochemicals,
                             !.spice_phytochemicals = t.spice_phytochemicals,
                             !.structures = t.structures,
                             !.descriptors = t.descriptors,
                             !.dup_ids = Tail(@),
                             !.merged = @ \cup {[dup_id |-> dup,
                                                 keeper_id |-> fix.keeper_id]}]
    /\ UNCHANGED <<structVars, descriptors, dcall, fcall, drug, adm>>

\* conn.commit() after the duplicates of one name.
FixCommit ==
    /\ fix.pc = "merge"
    /\ fix.dup_ids = <<>>
    /\ fix' = [fix EXCEPT !.pc = "names", !.dups = Tail(@)]
    /\ UNCHANGED <<structVars, descriptors, dcall, fcall, drug, adm>>

\* conn.close() after the last name.
FixEnd ==
    /\ fix.pc = "names"
    /\ fix.dups = <<>>
    /\ fix' = [fix EXCEPT !.pc = "done"]
    /\ UNCHANGED <<structVars, descriptors, dcall, fcall, drug, adm>>

\* The stores the script may meet: every reference of the three
\* referencing tables exists (load_data.py and app.py run with foreign keys
\* on), cid is unique where present, and only a phytochemical with a cid
\* has descriptors.
InitFix ==
    /\ files = [d \in AllDests |-> Absent]
    /\ structures = {NewRow(1, 0, 0), NewRow(2, 0, 0)}
    /\ req = Cleared
    /\ bt = BtIdle
    /\ txn = <<>>
    /\ dl = [p \in Procs |-> DlIdle]
    /\ prev = NoOp
    /\ ops = 0
    /\ descriptors = {}
    /\ dcall = NoDescriptorCall
    /\ fcall = NoFetchCall
    /\ drug = NoRules
    /\ adm = AdmIdle
    /\ \E name \in { n \in [FixIds -> PhytoNames] : n[1] = "a" }, withCid \in SUBSET FixIds,
          links \in SUBSET { Link(sp, p) : sp \in SpiceIds, p \in FixIds },
          structs \in SUBSET FixIds, foreign_keys \in BOOLEAN :
          \E descs \in SUBSET withCid :
             LET t == [phytochemicals |->
                          { PhytoRow(p, name[p], IF p \in withCid THEN 100 + p ELSE NoCid) :
                              p \in FixIds },
                       spice_phytochemicals |-> links,
                       structures |-> { NewRow(p, 0, 0) : p \in structs },
                       descriptors |-> { DescRow(p) : p \in descs }]
             IN fix = [FixIdle EXCEPT !.pc = "start", !.foreign_keys = foreign_keys,
                                      !.phytochemicals = t.phytochemicals,
                                      !.spice_phytochemicals = t.spice_phytochemicals,
                                      !.structures = t.structures,
                                      !.descriptors = t.descriptors,
                                      !.before = t]

NextFix ==
    \/ FixStart
    \/ FixName
    \/ FixMerge
    \/ FixCommit
    \/ FixEnd

SpecFix == InitFix /\ [][NextFix]_vars

-----------------------------------------------------------------------------
(* Properties of the structures side, checked under Spec. *)

NonNull(path) == path # NoPath
IsGetOrSleep(e) == e[1] \in {"get", "sleep"}
IsGet(e) == e[1] = "get"
Has(log, e) == \E i \in DOMAIN log : log[i] = e
TheRow(rows, pid) == CHOOSE s \in RowsOf(rows, pid) : TRUE

\* C1: across every step of on-demand enrichment and of the batch tool, with
\* any mix of download successes and failures, every structures row stays,
\* a path that is non-null stays non-null, and has_2d / has_3d stay 1.
C1_StructureMonotonicFill ==
    [][\A s \in structures :
          \E t \in structures' :
             /\ t.phyto_id = s.phyto_id
             /\ \A k \in Kinds : NonNull(PathOf(s, k)) => NonNull(PathOf(t, k))
             /\ s.has_2d = 1 => t.has_2d = 1
             /\ s.has_3d = 1 => t.has_3d = 1]_vars

\* C1 witness: a run in mode "all" re-downloaded the 2D file of a row whose
\* 2D path was set, the download failed, and the path is still there.
C1_Witness ==
    /\ bt.pc = "done" /\ bt.mode = "all" /\ bt.attempted = 1
    /\ bt.rows[1].sdf2d # EmptyString
    /\ bt.ok["sdf2d"] = 0
    /\ \E s \in structures : s.phyto_id = bt.rows[1].phyto_id /\ NonNull(s.sdf_2d_path)

\* C3: a fetch_structures_on_demand call that follows the same call directly,
\* no GET attempt of either having failed, leaves the structures table (its
\* rows and every field of them) as the first call left it.
C3_StructureEnrichmentIdempotent ==
    \A r \in Reqs :
        (req[r].pc = "done" /\ req[r].twice /\ req[r].allok)
            => structures = req[r].pre

\* C3 witness: the second of two such calls has returned True with the row filled.
C3_Witness ==
    /\ req["r1"].pc = "done" /\ req["r1"].twice /\ req["r1"].allok
    /\ req["r1"].ret = "true"
    /\ \E s \in structures :
          s.phyto_id = req["r1"].phyto_id /\ \A k \in Kinds : NonNull(PathOf(s, k))

\* C4: after a fetch_structures_on_demand call in which a download succeeded,
\* the phyto_id has exactly one row; a path whose download succeeded is the
\* artifact's relative path; a path or flag whose download failed is what it
\* was before the call (NULL, 0 when the row is new).
C4_PartialFailureUpsert ==
    \A r \in Reqs :
        (req[r].pc = "done" /\ req[r].ret = "true") =>
            LET pid == req[r].phyto_id
                cid == req[r].cid
                got == req[r].got
                old == IF RowsOf(req[r].pre, pid) = {}
                       THEN [phyto_id |-> pid, has_2d |-> 0, has_3d |-> 0,
                             sdf_2d_path |-> NoPath, sdf_3d_path |-> NoPath,
                             png_2d_path |-> NoPath]
                       ELSE TheRow(req[r].pre, pid)
            IN /\ \E k \in Kinds : got[k]
               /\ Cardinality(RowsOf(structures, pid)) = 1
               /\ \A s \in RowsOf(structures, pid) :
                     /\ \A k \in Kinds :
                           PathOf(s, k) = IF got[k]
                                          THEN << <<"structures", k>>, cid, Ext(k) >>
                                          ELSE PathOf(old, k)
                     /\ ~got["sdf2d"] => s.has_2d = old.has_2d
                     /\ ~got["sdf3d"] => s.has_3d = old.has_3d

\* C4 witness: the image download failed, the 2D and 3D downloads succeeded.
C4_Witness ==
    /\ req["r1"].pc = "done" /\ req["r1"].ret = "true"
    /\ req["r1"].got = [sdf2d |-> TRUE, sdf3d |-> TRUE, png |-> FALSE]
    /\ \E s \in structures :
          /\ s.phyto_id = req["r1"].phyto_id
          /\ s.png_2d_path = NoPath
          /\ NonNull(s.sdf_2d_path) /\ NonNull(s.sdf_3d_path)

\* C5: a returned downloader call has made at most 3 GETs, none after a body
\* was written, returned false when no attempt succeeded, and let no
\* exception through, whatever each attempt raised.
C5_DownloadersNeverRaise ==
    \A p \in Procs :
        dl[p].pc = "ret" =>
            LET log == dl[p].log
            IN /\ Len(SelectSeq(log, IsGet)) <= 3
               /\ dl[p].ret # "raised"
               /\ dl[p].ret = "true" =>
                     (log = <<>> \/ log[Len(log)][1] = "written")
               /\ (log # <<>> /\ \A i \in DOMAIN log : log[i][1] # "written")
                     => dl[p].ret = "false"

\* C6: in both downloaders a call whose third attempt succeeded (the first
\* two having failed) returned true after three GETs and two sleeps, of
\* 0.8*1 and 0.8*2 seconds in download_file and 1.5*1 and 1.5*2 seconds in
\* download, each between the failed attempt and the next GET.
C6_RetryLinearBackoff ==
    \A p \in Procs :
        (dl[p].pc = "ret" /\ Has(dl[p].log, <<"written", 3>>)) =>
            LET base == IF p = "batch" THEN 15 ELSE 8
            IN /\ dl[p].ret = "true"
               /\ SelectSeq(dl[p].log, IsGetOrSleep) =
                     << <<"get", 1>>, <<"sleep", base>>, <<"get", 2>>,
                        <<"sleep", 2 * base>>, <<"get", 3>> >>

\* C6 witness: download_file returned after its third attempt wrote the body.
C6_Witness ==
    /\ dl["r1"].pc = "ret" /\ dl["r1"].ret = "true"
    /\ Has(dl["r1"].log, <<"written", 3>>)

\* C7: neither downloader opens the destination with a body of fewer than
\* 100 bytes in hand, so none is written and none makes a call return true.
C7_SmallBodyRejected ==
    \A p \in Procs :
        \A i \in DOMAIN dl[p].log :
            dl[p].log[i][1] = "open" => dl[p].log[i][3] >= 100

\* C8: a downloader opens the destination only with a completely read body
\* in hand, and when it returns false the destination is as it was before
\* the call.
C8_NoPartialFileWrites ==
    \A p \in Procs :
        /\ \A i \in DOMAIN dl[p].log :
              dl[p].log[i][1] = "open" => dl[p].log[i][3] > 0
        /\ (dl[p].pc = "ret" /\ dl[p].ret = "false")
              => files[dl[p].dest] = dl[p].before

\* C9: download_file on a destination that exists and is non-empty returns
\* true with no GET, no sleep and the file untouched; on a destination that
\* is absent or empty it enters the attempt loop, whose first step is a GET.
C9_SkipIfPresent ==
    \A r \in Reqs :
        LET d == dl[r]
            present == d.before.exists /\ d.before.size > 0
        IN /\ (d.pc = "ret" /\ present)
                => (d.ret = "true" /\ d.log = <<>> /\ files[d.dest] = d.before)
           /\ (d.pc \in {"try", "ret"} /\ ~present)
                => IF d.log = <<>> THEN d.pc = "try" /\ d.attempt = 1
                   ELSE d.log[1] = <<"get", 1>>

\* C9 witness: download_file returned on a destination that was present.
C9_Witness ==
    /\ dl["r1"].pc = "ret" /\ dl["r1"].ret = "true"
    /\ dl["r1"].before.exists /\ dl["r1"].before.size > 0
    /\ dl["r1"].log = <<>>

\* C16: while a downloader call is in its attempt loop (a GET or a backoff
\* sleep in progress), no connection holds uncommitted writes.
C16_NoTransactionSpansRemoteIO ==
    \A p \in Procs : dl[p].pc = "try" => txn = <<>>

-----------------------------------------------------------------------------
(* Properties of the structures part of the detail page, checked under     *)
(* SpecDetail.                                                             *)

\* C13: a detail-page request calls fetch_structures_on_demand exactly when
\* the phytochemical has a compound id and sdf_2d_path, sdf_3d_path and
\* png_2d_path are all absent; with a path present it enters no download
\* and leaves the row as it was, its absent paths included.
C13_StructureTrigger ==
    \A r \in Reqs :
        (req[r].detail /\ req[r].pc # "idle") =>
            LET pid == req[r].phyto_id
                old == { s \in req[r].pre : s.phyto_id = pid }
                absent(k) == \A s \in old : PathOf(s, k) = NoPath
                invoked == req[r].pc # "done" \/ req[r].ret # "none"
            IN /\ invoked <=> (CidOf(pid) \notin {NoCid, 0}
                                 /\ absent("sdf2d") /\ absent("sdf3d") /\ absent("png"))
               /\ ~invoked => (dl[r] = DlIdle /\ structures = req[r].pre)

\* C13 witness: a request for a record that has its 2D path and no image
\* path ended without a download, the image path still null.
C13_Witness ==
    /\ req["r1"].detail /\ req["r1"].pc = "done" /\ req["r1"].ret = "none"
    /\ \E s \in structures :
          /\ s.phyto_id = req["r1"].phyto_id
          /\ NonNull(s.sdf_2d_path) /\ s.png_2d_path = NoPath
    /\ dl["r1"] = DlIdle

-----------------------------------------------------------------------------
(* Properties of the descriptors side, checked under SpecDesc. *)

\* C2: across every descriptor enrichment, whatever the service returns, a
\* descriptors row stays and a field of it that is non-null stays non-null.
C2_DescriptorMonotonicFill ==
    [][\A d \in descriptors :
          \E e \in descriptors' :
             /\ e.phyto_id = d.phyto_id
             /\ \A c \in DescColumns : d.v[c] # NULL => e.v[c] # NULL]_vars

\* C10: when the batched property request fails (network error, timeout,
\* malformed JSON, no PropertyTable / Properties entry) the call returns
\* false and the descriptors table is as it was: no row inserted, no field
\* changed.
C10_AtomicDescriptorFetch ==
    (dcall.called /\ ~dcall.replied)
        => (dcall.ret = "false" /\ descriptors = dcall.pre)

\* C10 witness: the batched request failed for a phytochemical whose
\* descriptors row already exists, and the row is untouched.
C10_Witness ==
    /\ dcall.called /\ ~dcall.replied /\ dcall.ret = "false"
    /\ DescRowsOf(descriptors, dcall.phyto_id) # {}
    /\ descriptors = dcall.pre

\* C14: a detail-page request calls fetch_descriptors_from_pubchem exactly
\* when the phytochemical has a compound id and molecular_weight, smiles or
\* inchikey is null; after a call that returned true every field of the row
\* for which the batched reply has a value holds that value, whatever it
\* held before, and every other field but the two SMILES is null.
C14_DescriptorTrigger ==
    dcall.phyto_id # 0 =>
        LET pid == dcall.phyto_id
            old == { d \in dcall.pre : d.phyto_id = pid }
            null(c) == \A d \in old : d.v[c] = NULL
        IN /\ dcall.called <=>
                 (CidOf(pid) \notin {NoCid, 0}
                  /\ (null("molecular_weight") \/ null("smiles") \/ null("inchikey")))
           /\ (dcall.called /\ dcall.ret = "true") =>
                 /\ Cardinality({ d \in descriptors : d.phyto_id = pid }) = 1
                 /\ \A d \in descriptors :
                       d.phyto_id = pid =>
                          \A c \in DescColumns :
                             IF ColumnProp[c] \in DOMAIN dcall.obj
                             THEN d.v[c] = dcall.obj[ColumnProp[c]]
                             ELSE c \notin {"smiles", "isomeric_smiles"} => d.v[c] = NULL

\* C14 witness: the row lacked its inchikey and had a molecular formula; the
\* fetch was made and the formula now holds the other, fresh value.
C14_Witness ==
    /\ dcall.called /\ dcall.ret = "true"
    /\ \E d \in dcall.pre, e \in descriptors :
          /\ d.phyto_id = dcall.phyto_id /\ e.phyto_id = dcall.phyto_id
          /\ d.v["inchikey"] = NULL
          /\ d.v["molecular_formula"] # NULL
          /\ e.v["molecular_formula"] # NULL
          /\ e.v["molecular_formula"] # d.v["molecular_formula"]

-----------------------------------------------------------------------------
(* Properties of one fetch_descriptors_from_pubchem call, checked under     *)
(* SpecFetch.                                                               *)

\* C11: when the batched request answered a property object and a plain-text
\* fallback request (CanonicalSMILES or IsomericSMILES) raised, the call
\* returned true, the phyto_id has one descriptors row, its affected SMILES
\* field is null and every other field is the value the batched reply gave.
C11_FallbackDegrades ==
    (fcall.called /\ ~Falsy(CidOf(fcall.phyto_id)) /\ ReplyHasProperties(fcall.reply)) =>
        LET obj == fcall.reply.data.PropertyTable.Properties[1]
            rows == { d \in descriptors : d.phyto_id = fcall.phyto_id }
            failedCanonical == "CanonicalSMILES" \notin DOMAIN obj /\ fcall.txtCanonical.raised
            failedIsomeric == "IsomericSMILES" \notin DOMAIN obj /\ fcall.txtIsomeric.raised
        IN (failedCanonical \/ failedIsomeric) =>
              /\ fcall.ret = "true"
              /\ Cardinality(rows) = 1
              /\ \A d \in rows :
                    /\ failedCanonical => d.v["smiles"] = NULL
                    /\ failedIsomeric => d.v["isomeric_smiles"] = NULL
                    /\ \A c \in DescColumns \ {"smiles", "isomeric_smiles"} :
                          d.v[c] = IF ColumnProp[c] \in DOMAIN obj THEN obj[ColumnProp[c]]
                                   ELSE NULL

\* C11 witness: the CanonicalSMILES fallback raised; the row was written with
\* smiles null and the molecular formula of the batched reply.
C11_Witness ==
    /\ fcall.called /\ fcall.ret = "true" /\ fcall.pre = {}
    /\ ReplyHasProperties(fcall.reply)
    /\ "CanonicalSMILES" \notin DOMAIN fcall.reply.data.PropertyTable.Properties[1]
    /\ fcall.txtCanonical.raised
    /\ \E d \in descriptors :
          /\ d.phyto_id = fcall.phyto_id
          /\ d.v["smiles"] = NULL
          /\ d.v["molecular_formula"] # NULL

\* C12: after a call that returned true, smiles and isomeric_smiles each hold
\* the batched JSON value when there is one; else the stripped plain-text
\* reply when it is non-empty and not "null" in any letter case; else null.
\* The text "null" is never stored.
C12_SmilesFallbackChain ==
    (fcall.called /\ fcall.ret = "true") =>
        LET obj == fcall.reply.data.PropertyTable.Properties[1]
            expected(prop, t) ==
                IF prop \in DOMAIN obj THEN obj[prop]
                ELSE IF ~t.raised /\ Strip(t.body) # "" /\ Lower(Strip(t.body)) # "null"
                THEN Strip(t.body)
                ELSE NULL
        IN \A d \in { e \in descriptors : e.phyto_id = fcall.phyto_id } :
              /\ d.v["smiles"] = expected("CanonicalSMILES", fcall.txtCanonical)
              /\ d.v["isomeric_smiles"] = expected("IsomericSMILES", fcall.txtIsomeric)
              /\ Lower(d.v["smiles"]) # "null"
              /\ Lower(d.v["isomeric_smiles"]) # "null"

\* C12 witness: the batched reply lacked both SMILES; the canonical fallback
\* answered a SMILES text, which is stored stripped, and the isomeric
\* fallback answered "Null", which is stored as null.
C12_Witness ==
    /\ fcall.called /\ fcall.ret = "true"
    /\ fcall.txtCanonical = [raised |-> FALSE, body |-> "CCO\n"]
    /\ fcall.txtIsomeric = [raised |-> FALSE, body |-> "Null\n"]
    /\ \E d \in descriptors :
          /\ d.phyto_id = fcall.phyto_id
          /\ d.v["smiles"] = "CCO"
          /\ d.v["isomeric_smiles"] = NULL

-----------------------------------------------------------------------------
(* Properties of two concurrent detail-page requests, checked under        *)
(* SpecConc.                                                               *)

\* C15: under every interleaving of two detail-page requests for the same
\* phytochemical, the phyto_id never has more than one structures row; once
\* both have ended, a path is set exactly when one of them downloaded the
\* artifact (as when the two enrichments run one after the other); and at
\* the step a request ends, every path of the row it reports names a file
\* that exists and holds the whole body.
C15_ConcurrentEnrichmentSafe ==
    [][/\ \A pid \in PhytoIds : Cardinality(RowsOf(structures', pid)) <= 1
       /\ (\A r \in Reqs : req'[r].pc = "done") =>
             \A s \in structures', k \in Kinds :
                (\A r \in Reqs : s.phyto_id = req'[r].phyto_id) =>
                   (NonNull(PathOf(s, k)) <=> \E r \in Reqs : req'[r].got[k])
       /\ \A r \in Reqs :
             (req[r].pc # "done" /\ req'[r].pc = "done") =>
                \A s \in structures', k \in Kinds :
                   (s.phyto_id = req'[r].phyto_id /\ NonNull(PathOf(s, k))) =>
                      LET file == files'[AppDest(k, req'[r].cid)]
                      IN file.exists /\ file.complete]_vars

-----------------------------------------------------------------------------
(* Properties of the drug-likeness rules, checked under SpecRules.         *)

\* C17: the detail page has rules exactly when molecular_weight is non-null;
\* then in each of the five rule sets fail_count is the length of fails,
\* pass holds exactly when it is 0, fails has no entry twice and no entry
\* for a null field; the fails of Lipinski are, in order, the entries of
\* MW > 500, XlogP > 5, HBD > 5, HBA > 10 whose field is present and over
\* the threshold, so that weight 600, xlogp 6, hbd 2, hba 4 gives pass
\* false, fail_count 2 and the entries for MW and XlogP.
C17_DrugLikenessRules ==
    drug.asked =>
        LET d == drug.d
            R == drug.drug_rules[1]
            present(label) ==
                CASE label \in {"MW > 500", "MW not in 160-480", "MW not in 200-600"}
                        -> d.molecular_weight # None
                  [] label \in {"XlogP > 5", "XLogP > 5", "XLogP not in -0.4-5.6",
                                "XlogP > 5.88"} -> d.xlogp # None
                  [] label \in {"TPSA > 140", "TPSA > 131.6", "TPSA > 150"} -> d.tpsa # None
                  [] label = "HBD > 5" -> d.hbd # None
                  [] label = "HBA > 10" -> d.hba # None
                  [] label \in {"RotB > 10", "RotB > 15"} -> d.rotatable_bonds # None
                  [] OTHER -> FALSE
            l1 == IF d.molecular_weight # None /\ d.molecular_weight[1] > 50000
                  THEN <<"MW > 500">> ELSE <<>>
            l2 == IF d.xlogp # None /\ d.xlogp[1] > 500 THEN <<"XlogP > 5">> ELSE <<>>
            l3 == IF d.hbd # None /\ d.hbd[1] > 5 THEN <<"HBD > 5">> ELSE <<>>
            l4 == IF d.hba # None /\ d.hba[1] > 10 THEN <<"HBA > 10">> ELSE <<>>
        IN /\ (drug.drug_rules = None) <=> (d.molecular_weight = None)
           /\ drug.drug_rules # None =>
                 /\ DOMAIN R = {"Lipinski", "Veber", "Ghose", "Egan", "Muegge"}
                 /\ \A set \in DOMAIN R :
                       /\ R[set].fail_count = Len(R[set].fails)
                       /\ R[set]["pass"] <=> (R[set].fail_count = 0)
                       /\ \A i \in DOMAIN R[set].fails :
                             /\ present(R[set].fails[i])
                             /\ \A j \in DOMAIN R[set].fails :
                                   R[set].fails[i] = R[set].fails[j] => i = j
                 /\ R.Lipinski.fails = l1 \o l2 \o l3 \o l4
                 /\ (d.molecular_weight = <<60000>> /\ d.xlogp = <<600>> /\ d.hbd = <<2>> /\ d.hba = <<4>>)
                       => R.Lipinski = [pass |-> FALSE, fail_count |-> 2,
                                        fails |-> <<"MW > 500", "XlogP > 5">>]

\* C17 witness: the rules of weight 600, xlogp 6, hbd 2, hba 4 were computed.
C17_Witness ==
    /\ drug.asked
    /\ drug.d.molecular_weight = <<60000>> /\ drug.d.xlogp = <<600>>
    /\ drug.d.hbd = <<2>> /\ drug.d.hba = <<4>>
    /\ drug.drug_rules # None
    /\ drug.drug_rules[1].Lipinski.fail_count = 2

-----------------------------------------------------------------------------
(* Properties of the batch endpoint, checked under SpecAdmin.              *)

IsTrue(ret) == ret = "true"

\* C18: the "downloaded" count of the response is the number of candidate
\* records for which fetch_structures_on_demand returned true.
C18_AdminReportsSucceeded ==
    adm.pc = "done" => adm.done = Len(SelectSeq(adm.returned, IsTrue))

\* C19: one request calls fetch_structures_on_demand on at most
\* min(limit, 100) records (none when that is zero or negative), never on
\* more than 100, and only on records with a compound id.
C19_AdminBounded ==
    adm.pc # "idle" =>
        LET calls == adm.i + (IF adm.pc = "call" THEN 1 ELSE 0)
            most == IF adm.limit < 100 THEN adm.limit ELSE 100
        IN /\ calls <= (IF most < 0 THEN 0 ELSE most)
           /\ calls <= 100
           /\ \A i \in DOMAIN adm.rows : adm.rows[i].cid # NoCid

-----------------------------------------------------------------------------
(* Properties of the commit checkpoints, checked under SpecCheckpoint.     *)

\* C20: whenever the batch tool stands between two rows with a multiple of
\* 50 rows visited, every update made so far is committed, and so it is
\* when the run has ended.
C20_CommitCheckpoint ==
    /\ (bt.pc = "loop" /\ bt.attempted > 0 /\ bt.attempted % 50 = 0) => txn = <<>>
    /\ bt.pc = "done" => txn = <<>>

-----------------------------------------------------------------------------
(* Properties of a run of download_structures.py in mode "missing",        *)
(* checked under Spec.                                                     *)

\* The run is in mode "missing" and --limit cut nothing off the SELECT.
MissingUnlimited ==
    /\ bt.mode = "missing"
    /\ Len(bt.rows) = Len(SelectRows(structures))

\* The phytochemicals that have a compound id.
WithCid == { pid \in PhytoIds : CidOf(pid) # NoCid }

\* The path of the kind was absent when the run selected the row.
WasAbsent(row, kind) == row[kind] = EmptyString

\* The artifact the run is to fetch for a selected row: its path is absent,
\* and for the 3D file the row's has_3d flag is 1.
Gap(row, kind) == WasAbsent(row, kind) /\ (kind = "sdf3d" => row.has_3d = 1)

\* C21 as stated: after a run in mode "missing" without limit in which every
\* download succeeded, every phytochemical with a compound id has a
\* structures row with all three paths non-null.
C21_BatchFillsEveryGap ==
    (bt.pc = "done" /\ MissingUnlimited /\ bt.allok) =>
        \A pid \in WithCid :
            /\ RowsOf(structures, pid) # {}
            /\ \A k \in Kinds : ~NotPath(PathOf(TheRow(structures, pid), k))

\* C21 amended: a run in mode "missing" enters a download for exactly the
\* artifacts of the selected rows (compound id and structures row) whose
\* path is absent, the 3D file only when has_3d is 1; after a run without
\* limit in which every download succeeded, each selected row has the 2D
\* and PNG paths non-null and the 3D path non-null when has_3d was 1 or the
\* path was present, a path that was present is the same and so is its
\* flag, and a phytochemical without structures row still has none.
C21_BatchFillsSelectedGaps ==
    /\ [][(bt.pc \in Kinds /\ bt.mode = "missing" /\ dl["batch"].pc = "idle") =>
             LET row == bt.rows[bt.i + 1]
             IN /\ dl'["batch"].pc # "idle" => Gap(row, bt.pc)
                /\ bt'.pc # bt.pc => ~Gap(row, bt.pc)]_vars
    /\ []((bt.pc = "done" /\ MissingUnlimited /\ bt.allok) =>
            /\ \A pid \in WithCid :
                  RowsOf(structures, pid) = {} =>
                      \A i \in DOMAIN bt.rows : bt.rows[i].phyto_id # pid
            /\ \A i \in DOMAIN bt.rows :
                  LET row == bt.rows[i]
                      s == TheRow(structures, row.phyto_id)
                  IN /\ \A k \in Kinds :
                          /\ Gap(row, k) => ~NotPath(PathOf(s, k))
                          /\ ~WasAbsent(row, k) => PathOf(s, k) = row[k]
                          /\ (WasAbsent(row, k) /\ ~Gap(row, k)) => NotPath(PathOf(s, k))
                     /\ ~WasAbsent(row, "sdf2d") => s.has_2d = row.has_2d
                     /\ ~Gap(row, "sdf3d") => s.has_3d = row.has_3d)

\* C21 witness: a run in mode "missing" in which every download succeeded
\* has ended; it selected a row with has_3d = 0 that had the PNG path but
\* not the 2D path, and that row now has the 2D path, the PNG path it had,
\* and no 3D path.
C21_Witness ==
    /\ bt.pc = "done" /\ MissingUnlimited /\ bt.allok
    /\ \E i \in DOMAIN bt.rows :
          LET row == bt.rows[i]
              s == TheRow(structures, row.phyto_id)
          IN /\ row.has_3d = 0
             /\ ~WasAbsent(row, "png") /\ WasAbsent(row, "sdf2d")
             /\ ~NotPath(s.sdf_2d_path)
             /\ s.png_2d_path = row.png
             /\ NotPath(s.sdf_3d_path)

-----------------------------------------------------------------------------
(* Properties of the descriptor cache, checked under SpecDesc.  The table  *)
(* starts empty and only fetch_descriptors_from_pubchem writes it, so a    *)
(* phytochemical has a descriptors row exactly when a call for it has      *)
(* returned true.                                                          *)

Fetched(table, pid) == \E d \in table : d.phyto_id = pid

\* The row of pid holds a molecular weight, a SMILES and an InChIKey.
Complete(table, pid) ==
    \E d \in table :
       /\ d.phyto_id = pid
       /\ d.v["molecular_weight"] # NULL
       /\ d.v["smiles"] # NULL
       /\ d.v["inchikey"] # NULL

\* C22 as stated: once fetch_descriptors_from_pubchem has returned true for
\* a phytochemical, a detail-page request for it makes no descriptor
\* request, whatever the fetch stored.
C22_DescriptorCacheEffective ==
    [][\A pid \in PhytoIds :
          (Fetched(descriptors, pid) /\ dcall'.phyto_id = pid) => ~dcall'.called]_vars

\* C22 amended: once a fetch has stored a molecular weight, a SMILES and an
\* InChIKey for a phytochemical, the row keeps all three and every later
\* detail-page request for it makes no descriptor request; while a
\* successful fetch has left one of the three null, a detail-page request
\* for it fetches again.
C22_CacheEffectiveWhenComplete ==
    [][\A pid \in PhytoIds :
          /\ Complete(descriptors, pid) =>
                /\ Complete(descriptors', pid)
                /\ dcall'.phyto_id = pid => ~dcall'.called
          /\ (Fetched(descriptors, pid) /\ ~Complete(descriptors, pid)
                /\ dcall'.phyto_id = pid) => dcall'.called]_vars

\* C22 witness: a detail-page request found a row with the three fields
\* and no isomeric SMILES, and made no descriptor request.
C22_Witness ==
    /\ dcall.phyto_id # 0 /\ ~dcall.called
    /\ Complete(dcall.pre, dcall.phyto_id)
    /\ \E d \in dcall.pre : d.phyto_id = dcall.phyto_id /\ d.v["isomeric_smiles"] = NULL
    /\ descriptors = dcall.pre

-----------------------------------------------------------------------------
(* Properties of fix_duplicates.py, checked under SpecFix.                 *)

\* No two phytochemicals share a name.
NoSharedName ==
    \A a, b \in fix.phytochemicals : a.phyto_name = b.phyto_name => a = b

\* Every merged duplicate went into a row of its name that the ordering
\* allows first, and every spice linked to it is linked to that keeper.
SpicesFollowKeeper ==
    \A m \in fix.merged :
       LET dup == CHOOSE r \in fix.before.phytochemicals : r.phyto_id = m.dup_id
       IN /\ \E k \in fix.phytochemicals :
                /\ k.phyto_id = m.keeper_id /\ k.phyto_name = dup.phyto_name
                /\ \A r \in fix.before.phytochemicals :
                      r.phyto_name = dup.phyto_name => MayPrecede(fix.before, k, r)
          /\ \A l \in fix.before.spice_phytochemicals :
                l.phyto_id = m.dup_id =>
                   Link(l.spice_id, m.keeper_id) \in fix.spice_phytochemicals

\* Every row of the three referencing tables names a phytochemical.
ReferencesExist ==
    LET ids == { r.phyto_id : r \in fix.phytochemicals }
    IN /\ \A l \in fix.spice_phytochemicals : l.phyto_id \in ids
       /\ \A x \in fix.structures : x.phyto_id \in ids
       /\ \A d \in fix.descriptors : d.phyto_id \in ids

\* C23: after fix_duplicates.py has completed, no two phytochemicals share a
\* name, every spice that was linked to a merged duplicate is linked to the
\* keeper (first by compound id present, then spice count, then structure
\* count), and every row of spice_phytochemicals, structures and
\* descriptors references a phyto_id that exists in phytochemicals.
C23_DuplicateMergeConsistent ==
    fix.pc = "done" => (NoSharedName /\ SpicesFollowKeeper /\ ReferencesExist)

====
